---- MODULE Spec2Model ----
(***************************************************************************)
(* The resilient request layer of the pricer backend: the per-category     *)
(* TokenBucket (bm/requester/rate_limiter.py), the CircuitBreaker          *)
(* (bm/requester/circuit_breaker.py) and Requester.send                    *)
(* (bm/requester/client.py).                                               *)
(*                                                                         *)
(* Time is time.monotonic() in whole seconds.  A bucket's tokens are kept  *)
(* in units of 1/window_seconds of a token, which is exact: the refill of  *)
(* a whole number of seconds is effective_max() * elapsed / window_seconds *)
(* and effective_max() is an int.  _effective_max is a float that          *)
(* penalize() multiplies by a fraction; it is kept in units of 1/EMScale.  *)
(***************************************************************************)
EXTENDS Integers, Sequences, FiniteSets, TLC

\* ------------------------------------------------------------- bounds
MaxBaseMax == 3       \* largest max_per_window a bucket is built with
MaxWindow == 2        \* largest window_seconds a bucket is built with
MaxTime == 4          \* the clock of the unit specifications stops here
MaxAcquires == 5      \* acquire() calls made in the unit specifications
MaxRecover == 2       \* largest recover_after_ok passed to record_ok()
MaxOkStreak == 3      \* record_ok() is not called on a longer ok_streak
MaxThreshold == 3     \* largest fail_threshold a breaker is built with
MaxCooldown == 2      \* largest cooldown_seconds a breaker is built with
MaxBreakerOps == 6    \* record_success()/record_failure() calls made

NCallers == 2         \* concurrent callers of Requester.send
MaxRequests == 2      \* HTTP requests issued for concurrent callers
MaxSerialRequests == 6   \* HTTP requests issued for a single caller
MaxUpstreamPages == 3     \* pages the upstream serves before its next links end
MaxCount == 2             \* largest `count` a page reports
MaxPageSize == 2          \* largest page_size passed to paginate()
MaxGuard == 2             \* largest max_pages_guard passed to paginate()
MaxAttempt == 4          \* largest attempt passed to backoff_delay_ms()
MaxBaseMs == 5           \* largest base_ms passed to backoff_delay_ms()
MaxMaxMs == 12           \* largest max_ms passed to backoff_delay_ms()
MaxJitterTenths == 5     \* largest jitter_ratio passed to backoff_delay_ms(), in tenths
MaxAttemptsPerPage == 2   \* largest max_attempts_per_page passed to paginate()
MaxPagesReturned == 2     \* pages in the list paginate() hands to fetch_all_pages()
MaxResults == 2           \* items in one page's `results`
MaxItems == 2             \* candidate items passed to full_cycle()
MaxWorkers == 2           \* largest `workers` passed to full_cycle()
MaxElapses == 1       \* cooldowns that pass while the Requester runs

\* global_max_concurrency, taken small (core/settings.py sets 8)
GlobalMaxConcurrency == 1

\* The settings the Requester is built with, at their defaults (core/settings.py)
SellerGenericMax == 100     \* seller_generic_max_per_window
SellerMutationsMax == 20    \* seller_mutations_max_per_window
BuybackMax == 30            \* getattr(settings, "buyback_max_per_window", 30)
RateWindowSeconds == 10     \* rate_window_seconds
RecoverAfterOk == 10        \* rl_recover_after_ok
PenaltyFactor == <<1, 2>>   \* rl_penalty_factor = 0.5

\* Requester.__init__: CircuitBreaker(fail_threshold=5, cooldown_seconds=60)
FailThreshold == 5
CooldownSeconds == 60

\* the float _effective_max is held as a multiple of 1/EMScale
EMScale == 8

Max2(a, b) == IF a >= b THEN a ELSE b
Min2(a, b) == IF a <= b THEN a ELSE b

\* penalize() factors f = num/den with 0 < f <= 1
Factors == {<<1, 4>>, <<1, 2>>, <<1, 1>>}

\* ------------------------------------------------------- TokenBucket
\* TokenBucket.__init__
NewBucket(max_per_window, window_seconds, t) ==
    [base_max      |-> max_per_window,
     eff           |-> max_per_window * EMScale,
     window        |-> window_seconds,
     tokens        |-> max_per_window * window_seconds,
     updated_at    |-> t,
     ok_streak     |-> 0]

\* TokenBucket.effective_max(): max(1, int(self._effective_max))
effective_max(b) == Max2(1, b.eff \div EMScale)

\* the refill without the cap at effective_max
RefilledUncapped(b, t) ==
    [b EXCEPT !.updated_at = t,
              !.tokens = b.tokens + effective_max(b) * (t - b.updated_at)]

\* acquire(), the refill under the lock: tokens = min(effective_max, tokens + refill)
Refilled(b, t) ==
    LET elapsed == t - b.updated_at
        refill  == effective_max(b) * elapsed   \* (eff * elapsed / window) tokens
    IN  [b EXCEPT !.updated_at = t,
                  !.tokens = Min2(effective_max(b) * b.window, b.tokens + refill)]

\* acquire(), line 36: `await asyncio.sleep(sleep_time)` in a module that never
\* imports asyncio: evaluating the name raises NameError before any suspension.
AwaitSleepReturns ==
    TRUE

AwaitSleep ==
    FALSE

\* acquire(): [bucket after the call, whether the call returned, sleep_time as
\* a fraction num/den of seconds]
acquire(b, t) ==
    LET r == Refilled(b, t)
    IN  IF r.tokens < r.window
        THEN \* needed / rate_per_sec = (1 - tokens) * window / effective_max
             [bucket   |-> r,
              returned |-> AwaitSleep,
              consumed |-> FALSE,
              sleep    |-> <<r.window - r.tokens, effective_max(r)>>]
        ELSE [bucket   |-> [r EXCEPT !.tokens = r.tokens - r.window],
              returned |-> TRUE,
              consumed |-> TRUE,
              sleep    |-> <<0, 1>>]

\* penalize(factor) is exact in units of 1/EMScale
PenalizeExact(b, f) ==
    \/ b.eff * f[1] <= EMScale * f[2]
    \/ (b.eff * f[1]) % f[2] = 0

\* TokenBucket.penalize: _effective_max = max(1.0, _effective_max * factor)
penalize(b, f) ==
    [b EXCEPT !.eff = Max2(EMScale, (b.eff * f[1]) \div f[2]),
              !.ok_streak = 0]

\* record_ok() is exact in units of 1/EMScale
RecordOkExact(b) ==
    LET gap == b.base_max * EMScale - b.eff
    IN  gap <= 4 * EMScale \/ gap % 4 = 0

\* a record_ok() that steps back without the cap at base_max
record_ok_uncapped(b, recover_after_ok) ==
    LET streak == b.ok_streak + 1
        gap    == b.base_max * EMScale - b.eff
        step   == Max2(EMScale, gap \div 4)
    IN  IF streak >= recover_after_ok /\ b.eff < b.base_max * EMScale
        THEN [b EXCEPT !.eff = b.eff + step, !.ok_streak = 0]
        ELSE [b EXCEPT !.ok_streak = streak]

\* TokenBucket.record_ok: after recover_after_ok OKs step back by max(1.0, gap * 0.25)
record_ok(b, recover_after_ok) ==
    LET streak == b.ok_streak + 1
        gap    == b.base_max * EMScale - b.eff
        step   == Max2(EMScale, gap \div 4)
    IN  IF streak >= recover_after_ok /\ b.eff < b.base_max * EMScale
        THEN [b EXCEPT !.eff = Min2(b.base_max * EMScale, b.eff + step),
                       !.ok_streak = 0]
        ELSE [b EXCEPT !.ok_streak = streak]

\* ----------------------------------------------------- CircuitBreaker
\* CircuitBreaker.__init__
NewBreaker(fail_threshold, cooldown_seconds) ==
    [fail_threshold |-> fail_threshold,
     cooldown       |-> cooldown_seconds,
     consecutive    |-> 0,
     open_until     |-> 0]

\* CircuitBreaker.allow
allow(br, t) == t >= br.open_until

\* CircuitBreaker.remaining_cooldown
remaining_cooldown(br, t) == Max2(0, br.open_until - t)

\* CircuitBreaker.record_success
record_success(br) == [br EXCEPT !.consecutive = 0]

\* record_failure without the reset of the streak after opening
record_failure_keeps_streak(br, t) ==
    IF br.consecutive + 1 >= br.fail_threshold
    THEN [br EXCEPT !.consecutive = br.consecutive + 1,
                    !.open_until = t + br.cooldown]
    ELSE [br EXCEPT !.consecutive = br.consecutive + 1]

\* record_failure that opens one failure late (> instead of >=)
record_failure_late(br, t) ==
    IF br.consecutive + 1 > br.fail_threshold
    THEN [br EXCEPT !.consecutive = 0, !.open_until = t + br.cooldown]
    ELSE [br EXCEPT !.consecutive = br.consecutive + 1]

\* a record_failure that leaves an open breaker's open_until alone
record_failure_ignored_while_open(br, t) ==
    IF br.consecutive + 1 >= br.fail_threshold
    THEN [br EXCEPT !.consecutive = 0,
                    !.open_until = IF t >= br.open_until THEN t + br.cooldown ELSE @]
    ELSE [br EXCEPT !.consecutive = br.consecutive + 1]

\* CircuitBreaker.record_failure
record_failure(br, t) ==
    IF br.consecutive + 1 >= br.fail_threshold
    THEN [br EXCEPT !.consecutive = 0, !.open_until = t + br.cooldown]
    ELSE [br EXCEPT !.consecutive = br.consecutive + 1]

\* ------------------------------------------------------------- state
VARIABLES
    now,        \* time.monotonic(), whole seconds
    tb,         \* a TokenBucket used on its own
    tb_hist,    \* history of tb: tokens granted and acquire() calls
    cb,         \* a CircuitBreaker used on its own
    cb_hist,    \* history of cb: the streak and the opening, as the contract counts them
    buckets,    \* Requester._buckets: category -> TokenBucket
    breakers,   \* Requester._breakers: category -> CircuitBreaker
    sem_value,  \* free permits of Requester._global_sem
    calls,      \* the send() call of each caller
    http_sent,  \* HTTP requests issued so far
    last_done,  \* how the send() call that ended in the last step ended, if one did
    env,        \* what the callers do: the categories they name, the requests they get
    pg,         \* a Requester.paginate() call: its parameters, locals and position
    fa,         \* a fetch_all_pages() call: what paginate() gave it and how it ended
    fc,         \* a ListingService.full_cycle() call: its arguments, locals and position
    ulq,        \* an update_listing_quantity() call: its inputs and its result
    lt,          \* a LearningTracker: its fields, the clock, and what was observed and flushed
    bo          \* a backoff_delay_ms() call: its arguments, its draw and its result

unitVars == <<tb, tb_hist, cb, cb_hist>>
reqVars == <<buckets, breakers, sem_value, calls, http_sent, last_done, env>>
svcVars == <<pg, fa, fc, ulq, lt, bo>>
\* what a step of paginate(), of fetch_all_pages() and of full_cycle() leaves alone
pgRest == <<now, unitVars, reqVars, fa, fc, ulq, lt, bo>>
faRest == <<now, unitVars, reqVars, pg, fc, ulq, lt, bo>>
fcRest == <<now, unitVars, reqVars, pg, fa, ulq, lt, bo>>
ulqRest == <<now, unitVars, reqVars, pg, fa, fc, lt, bo>>
ltRest == <<now, unitVars, reqVars, pg, fa, fc, ulq, bo>>
boRest == <<now, unitVars, reqVars, pg, fa, fc, ulq, lt>>
vars == <<now, tb, tb_hist, cb, cb_hist, buckets, breakers, sem_value, calls,
          http_sent, last_done, env, pg, fa, fc, ulq, lt, bo>>

Callers == DOMAIN calls
Categories == {"seller_generic", "seller_mutations", "buyback"}
\* the categories concurrent callers name: two configured ones
CallCategories == {"seller_mutations", "buyback", "unknown"}
\* the categories a single caller names: a configured one and one that is not
SerialCategories == {"seller_mutations", "unknown"}
ALLOWED_METHODS == {"GET", "POST", "PUT"}
Methods == {"GET", "POST", "DELETE"}   \* the methods the callers pass

\* a transport failure (aiohttp.ClientError) in place of a status
ClientError == 0
NoStatus == 0 - 1
Statuses == {200, 204, 400, 401, 403, 404, 418, 429, 500, 503}
Responses == Statuses \cup {ClientError}

\* the locals of a send() call that decide what it does next (`attempts` feeds
\* only the length of the backoff sleep, which is not modelled)
IdleCall ==
    [pc |-> "idle", category |-> "seller_generic", retry_404 |-> FALSE]

\* the end of a send() call: what it returned or raised
Done(status, outcome) == [outcome |-> outcome]
\* no send() call ended
NoneDone == Done(NoStatus, "none")

\* Requester.paginate(), lines 371-383 and 394: the call's parameters and its
\* locals before the first page; max_pages_guard = NoGuard stands for None.
\* `cur` is the index of the upstream page that current_url names, `sends` the
\* send() calls made for it, `pages` keeps of each payload the page it came
\* from and whether it carried a next link.
NoGuard == 0
NoExpected == 0
NewPaginate(cursor, page_size, max_pages_guard, max_attempts_per_page) ==
    [pc |-> "page_top", cursor |-> cursor, page_size |-> page_size,
     max_pages_guard |-> max_pages_guard,
     max_attempts_per_page |-> max_attempts_per_page,
     cur |-> 1, attempt |-> 0, seen_pages |-> 0, expected_pages |-> NoExpected,
     pages |-> <<>>, last_exc |-> "None", named |-> 0,
     sends |-> 0, guard_hit |-> FALSE, broke |-> FALSE]

\* Requester.__init__
BucketMax(k) ==
    CASE k = "seller_generic" -> SellerGenericMax
      [] k = "seller_mutations" -> SellerMutationsMax
      [] OTHER -> BuybackMax

InitRequester(n, categories, max_requests) ==
    /\ env = [categories |-> categories, max_requests |-> max_requests]
    /\ buckets = [k \in Categories |-> NewBucket(BucketMax(k), RateWindowSeconds, 0)]
    /\ breakers = [k \in Categories |-> NewBreaker(FailThreshold, CooldownSeconds)]
    /\ sem_value = GlobalMaxConcurrency
    /\ calls = [c \in 1..n |-> IdleCall]
    /\ http_sent = 0
    /\ last_done = NoneDone

\* fetch_all_pages(), line 51: paginate() has raised or has returned `pages`
NewFetchAll(paginate_error, pages) ==
    [pc |-> "called", paginate_error |-> paginate_error, pages |-> pages,
     error |-> "None", results |-> 0]

\* full_cycle(), lines 159-170: the call waits for its baseline scan. `tasks`
\* are the update tasks of the chunk under way, `issued` and `finished` the
\* positions in to_activate whose mutation was sent or has ended, per phase,
\* `log` the stages in the order they began. `totals` are the running totals of
\* _bulk_update_chunked(), `act_bulk` and `deact_bulk` the summaries it returned,
\* `caller` who awaits the bulk update, `upstream` the quantities the listings
\* have at the upstream when the model follows them.
NoIndex == <<>>
\* BulkSummary(total=0, ok=0, suspect=0, failed=0): lines 142 and 186
ZeroSummary == [total |-> 0, ok |-> 0, failed |-> 0]
ChunkSize == 1000
NewCycle(items, workers, settle_seconds, abort_on_first_failure) ==
    [pc |-> "baseline", caller |-> "full_cycle", items |-> items, workers |-> workers,
     settle_seconds |-> settle_seconds,
     abort_on_first_failure |-> abort_on_first_failure,
     chunk_size |-> ChunkSize,
     baseline_idx |-> NoIndex, to_activate |-> <<>>, chunk |-> 0, tasks |-> <<>>,
     totals |-> ZeroSummary, act_bulk |-> ZeroSummary, deact_bulk |-> ZeroSummary,
     issued |-> [activate |-> {}, deactivate |-> {}],
     finished |-> [activate |-> {}, deactivate |-> {}],
     final_idx |-> NoIndex, upstream |-> NoIndex,
     log |-> <<"baseline">>, error |-> "None", report |-> <<>>]

\* update_listing_quantity(), lines 53-71: the call, with what its POST and
\* its read-back will meet; verified_quantity starts as None
NoQuantity == 0 - 9
NoDoc == [kind |-> "None", q |-> NoQuantity]
NewUpdate(listing_id, activate, post, doc) ==
    [pc |-> "called", listing_id |-> listing_id, activate |-> activate,
     post |-> post, doc |-> doc, result |-> <<>>]

\* LearningTracker.__init__(), lines 54-57, at a clock of TimeAtStart; `observed`
\* counts the observe() calls per tag, `reported` adds up the counts of the
\* batches returned, `returned` is the last return value of maybe_flush() and
\* `gap` the time from the batch before to that batch. `buffer` is the _buffer
\* of the _TrackerAdapter around the tracker (client.py, lines 58-60 and 135),
\* `tracked` counts the _track_event() calls of send() per tag
TimeAtStart == 1000
FlushIntervalS == 30
Tags == {"listing_update", "listings_get_all"}
NewTracker ==
    [clock |-> TimeAtStart, stats |-> [t \in Tags |-> 0], last_flush_ts |-> 0,
     observed |-> [t \in Tags |-> 0], reported |-> [t \in Tags |-> 0],
     returned |-> "None", gap |-> 0,
     buffer |-> <<>>, tracked |-> [t \in Tags |-> 0]]

\* backoff_delay_ms(), line 12: the call with its arguments; jitter_ratio is
\* counted in tenths. `u` is the draw of random.uniform(), in tenths, and
\* `result` the value returned
NoDraw == 0 - 1
NewBackoff(attempt, base_ms, jitter_tenths, max_ms) ==
    [pc |-> "called", attempt |-> attempt, base_ms |-> base_ms,
     jitter_tenths |-> jitter_tenths, max_ms |-> max_ms,
     u |-> NoDraw, result |-> 0]

IdlePaginate == pg = NewPaginate(FALSE, 1, NoGuard, 1)
IdleFetchAll == fa = NewFetchAll("None", <<>>)
IdleCycle == fc = NewCycle(<<>>, 1, 0, FALSE)
IdleUpdate == ulq = NewUpdate("L1", FALSE, "raises", NoDoc)
IdleTracker == lt = NewTracker
IdleBackoff == bo = NewBackoff(1, 1, 0, 1)

\* no paginate(), fetch_all_pages() or full_cycle() call is under way
InitServicesIdle ==
    /\ IdlePaginate
    /\ IdleFetchAll
    /\ IdleCycle
    /\ IdleUpdate
    /\ IdleTracker
    /\ IdleBackoff

NoTime == 0 - 1

NewBucketHist(b) == [initial |-> b.tokens, refilled |-> 0, returned |-> 0, raised |-> 0]
NewBreakerHist ==
    [streak |-> 0, opened_at |-> NoTime, failed_since |-> FALSE, ops |-> 0,
     extended |-> FALSE]

\* a bucket built with any max_per_window >= 1 and window_seconds >= 1
InitBucket ==
    /\ now = 0
    /\ \E m \in 1..MaxBaseMax, w \in 1..MaxWindow : tb = NewBucket(m, w, 0)
    /\ tb_hist = NewBucketHist(tb)
    /\ cb = NewBreaker(1, 1)
    /\ cb_hist = NewBreakerHist
    /\ InitRequester(1, SerialCategories, MaxSerialRequests)
    /\ InitServicesIdle

\* a breaker built with any fail_threshold >= 1 and cooldown_seconds >= 1
InitBreaker ==
    /\ now = 0
    /\ tb = NewBucket(1, 1, 0)
    /\ tb_hist = NewBucketHist(tb)
    /\ \E th \in 1..MaxThreshold, cd \in 1..MaxCooldown : cb = NewBreaker(th, cd)
    /\ cb_hist = NewBreakerHist
    /\ InitRequester(1, SerialCategories, MaxSerialRequests)
    /\ InitServicesIdle

\* a second of time.monotonic() passes
Tick ==
    /\ now < MaxTime
    /\ now' = now + 1
    /\ UNCHANGED <<tb, tb_hist, cb, cb_hist, reqVars, svcVars>>

\* one caller's `await tb.acquire()`
TB_Acquire ==
    /\ tb_hist.returned + tb_hist.raised < MaxAcquires
    /\ LET a == acquire(tb, now)
           granted == Max2(0, Refilled(tb, now).tokens - tb.tokens)
       IN  /\ tb' = a.bucket
           /\ tb_hist' = [tb_hist EXCEPT
                 !.refilled = @ + granted,
                 !.returned = IF a.returned THEN @ + 1 ELSE @,
                 !.raised   = IF a.returned THEN @ ELSE @ + 1]
    /\ UNCHANGED <<now, cb, cb_hist, reqVars, svcVars>>

\* tb.penalize(f)
TB_Penalize ==
    /\ \E f \in Factors :
          /\ PenalizeExact(tb, f)
          /\ tb' = penalize(tb, f)
    /\ UNCHANGED <<now, tb_hist, cb, cb_hist, reqVars, svcVars>>

\* tb.record_ok(r)
TB_RecordOk ==
    /\ tb.ok_streak < MaxOkStreak
    /\ \E r \in 1..MaxRecover :
          /\ RecordOkExact(tb)
          /\ tb' = record_ok(tb, r)
    /\ UNCHANGED <<now, tb_hist, cb, cb_hist, reqVars, svcVars>>

\* cb.record_success()
CB_RecordSuccess ==
    /\ cb_hist.ops < MaxBreakerOps
    /\ cb' = record_success(cb)
    /\ cb_hist' = [cb_hist EXCEPT !.streak = 0, !.ops = @ + 1]
    /\ UNCHANGED <<now, tb, tb_hist, reqVars, svcVars>>

\* cb.record_failure(); the history counts the streak afresh after a success
\* and after an opening, and tells whether the last opening found the breaker open
CB_RecordFailure ==
    /\ cb_hist.ops < MaxBreakerOps
    /\ cb' = record_failure(cb, now)
    /\ cb_hist' =
          IF cb_hist.streak + 1 = cb.fail_threshold
          THEN [streak |-> 0, opened_at |-> now, failed_since |-> FALSE,
                ops |-> cb_hist.ops + 1, extended |-> ~allow(cb, now)]
          ELSE [cb_hist EXCEPT !.streak = @ + 1, !.ops = @ + 1,
                               !.failed_since = (cb_hist.opened_at # NoTime)]
    /\ UNCHANGED <<now, tb, tb_hist, reqVars, svcVars>>

\* only acquire() calls on a bucket, with time passing between them
NextAcquire == TB_Acquire \/ Tick
SpecAcquire == InitBucket /\ [][NextAcquire]_vars

\* acquire(), penalize() and record_ok() interleaved
NextBucket == TB_Acquire \/ TB_Penalize \/ TB_RecordOk \/ Tick
SpecBucket == InitBucket /\ [][NextBucket]_vars

\* a breaker's operations, with time passing between them
NextBreaker == CB_RecordSuccess \/ CB_RecordFailure \/ Tick
SpecBreaker == InitBreaker /\ [][NextBreaker]_vars

\* ----------------------------------------------------------- Requester
\* send(), lines 277-332: what a response records on the category's breaker
\* if a 429 counted as a breaker failure
BreakerEffect429Fails(status, retry_404) ==
    CASE status = ClientError -> "none"
      [] 200 <= status /\ status < 300 -> "success"
      [] status = 429 -> "failure"
      [] 500 <= status /\ status < 600 -> "failure"
      [] status = 403 -> "failure"
      [] status = 404 /\ retry_404 -> "failure"
      [] OTHER -> "none"

BreakerEffect(status, retry_404) ==
    CASE status = ClientError -> "none"
      [] 200 <= status /\ status < 300 -> "success"
      [] 500 <= status /\ status < 600 -> "failure"
      [] status = 403 -> "failure"
      [] status = 404 /\ retry_404 -> "failure"
      [] OTHER -> "none"

\* send(): what a response records on the category's bucket
BucketEffect(status) ==
    CASE status = ClientError -> "none"
      [] 200 <= status /\ status < 300 -> "record_ok"
      [] status = 429 -> "penalize"
      [] OTHER -> "none"

\* send(): the exception an attempt ends with
Raised(status) ==
    CASE status = ClientError -> "aiohttp.ClientError"
      [] 200 <= status /\ status < 300 -> "returned"
      [] status = 429 -> "BackMarketRateLimitError"
      [] 500 <= status /\ status < 600 -> "BackMarketServerError"
      [] status = 400 -> "BackMarketBadRequestError"
      [] status = 401 -> "BackMarketAuthError"
      [] status = 403 -> "BackMarketForbiddenError"
      [] status = 404 -> "BackMarketNotFoundError"
      [] OTHER -> "BackMarketAPIError"

\* send(), lines 334-341: the exceptions the loop catches to sleep and `continue`
RetriedExceptions ==
    {"BackMarketRateLimitError", "BackMarketServerError", "BackMarketNetworkError",
     "aiohttp.ClientError"}

\* a loop that also catches the bad-request error for a retry
DispositionRetriesBadRequest(status) ==
    IF Raised(status) = "returned" THEN "return"
    ELSE IF status = 429 THEN "sleep_429"
    ELSE IF Raised(status) \in RetriedExceptions \cup {"BackMarketBadRequestError"}
    THEN "retry"
    ELSE "raise"

\* send(): how the attempt ends: "return", "sleep_429" (then a retry), "retry"
\* after a backoff, or "raise" out of send()
Disposition(status) ==
    IF Raised(status) = "returned" THEN "return"
    ELSE IF status = 429 THEN "sleep_429"
    ELSE IF Raised(status) \in RetriedExceptions THEN "retry"
    ELSE "raise"

Classify(status, retry_404) ==
    [breaker |-> BreakerEffect(status, retry_404),
     bucket  |-> BucketEffect(status),
     then    |-> Disposition(status),
     outcome |-> Raised(status)]

\* send(), the gates before the request loop: the reason a call is rejected
RejectReason(method, category) ==
    IF method \notin ALLOWED_METHODS THEN "method_not_allowed"
    ELSE IF category \in Categories /\ ~allow(breakers[category], now) THEN "circuit_open"
    ELSE IF category \notin Categories THEN "no_bucket"
    ELSE "none"

\* a send() that takes its rate-limit token before it looks at the gates
RejectedAfterAcquire(c, call, reason) ==
    /\ last_done' = Done(NoStatus, reason)
    /\ buckets' = IF call.category \in Categories
                  THEN [buckets EXCEPT ![call.category] = acquire(@, now).bucket]
                  ELSE buckets
    /\ UNCHANGED <<breakers, sem_value, http_sent, calls>>

\* send() raises BackMarketAPIError at a gate
Rejected(c, call, reason) ==
    /\ last_done' = Done(NoStatus, reason)
    /\ UNCHANGED <<buckets, breakers, sem_value, http_sent, calls>>

\* a semaphore that never blocks
SemNeverLocked == FALSE

\* `async with self._global_sem` would block
SemLocked == sem_value <= 0

\* requests that may still be issued within the bound
InBudget ==
    http_sent + Cardinality({c \in Callers : calls[c].pc = "sem_wait"}) < env.max_requests

\* send(), one turn of the request loop up to its first suspension:
\* attempts += 1, bucket.acquire(), then the request under the global semaphore
Attempt(c, call) ==
    LET k == call.category
        a == acquire(buckets[k], now)
        n == call
    IN  /\ a.returned => InBudget
        /\ buckets' = [buckets EXCEPT ![k] = a.bucket]
        /\ IF ~a.returned
           THEN \* the NameError of acquire() leaves send(): it is raised outside the try
                /\ calls' = [calls EXCEPT ![c] = IdleCall]
                /\ last_done' = Done(NoStatus, "NameError")
                /\ UNCHANGED <<sem_value, http_sent>>
           ELSE IF SemLocked
           THEN /\ calls' = [calls EXCEPT ![c] = [n EXCEPT !.pc = "sem_wait"]]
                /\ last_done' = NoneDone
                /\ UNCHANGED <<sem_value, http_sent>>
           ELSE /\ calls' = [calls EXCEPT ![c] = [n EXCEPT !.pc = "request"]]
                /\ sem_value' = sem_value - 1
                /\ http_sent' = http_sent + 1
                /\ last_done' = NoneDone
        /\ UNCHANGED breakers

\* a caller enters send(method, ..., category, retry_404)
StartSend(c) ==
    /\ calls[c].pc = "idle"
    /\ \E m \in Methods, k \in env.categories, r \in BOOLEAN :
          LET call == [pc |-> "idle", category |-> k, retry_404 |-> r]
              reason == RejectReason(m, k)
          IN  IF reason # "none"
              THEN Rejected(c, call, reason)
              ELSE Attempt(c, call)
    /\ UNCHANGED <<now, unitVars, svcVars, env>>

\* a caller waiting for the global semaphore gets its permit and issues the request
AcquireSem(c) ==
    /\ calls[c].pc = "sem_wait"
    /\ ~SemLocked
    /\ sem_value' = sem_value - 1
    /\ http_sent' = http_sent + 1
    /\ calls' = [calls EXCEPT ![c].pc = "request"]
    /\ last_done' = NoneDone
    /\ UNCHANGED <<now, unitVars, svcVars, buckets, breakers, env>>

\* a Requester whose categories share one breaker
RecordOnEveryBreaker(brs, k, effect, t) ==
    [x \in DOMAIN brs |->
        CASE effect = "success" -> record_success(brs[x])
          [] effect = "failure" -> record_failure(brs[x], t)
          [] OTHER -> brs[x]]

\* send(), lines 206 and 279-327: `br` is the breaker of the call's category
RecordOnBreaker(brs, k, effect, t) ==
    [brs EXCEPT ![k] =
        CASE effect = "success" -> record_success(@)
          [] effect = "failure" -> record_failure(@, t)
          [] OTHER -> @]

\* a 429 sleep outside the `async with self._global_sem` block
PermitsAfterSleepOutside(then, sem) == sem + 1

\* send(), lines 253-309: the free permits once the response is handled; the
\* sleep after a 429 is inside the `async with self._global_sem` block
PermitsAfter(then, sem) == IF then = "sleep_429" THEN sem ELSE sem + 1

\* the upstream answers the request of caller c with status s (or the transport fails)
Respond(c, s) ==
    /\ calls[c].pc = "request"
    /\ LET call == calls[c]
           k == call.category
           cl == Classify(s, call.retry_404)
       IN  /\ breakers' = RecordOnBreaker(breakers, k, cl.breaker, now)
           /\ sem_value' = PermitsAfter(cl.then, sem_value)
           /\ cl.bucket = "penalize" => PenalizeExact(buckets[k], PenaltyFactor)
           /\ cl.bucket = "record_ok" => RecordOkExact(buckets[k])
           /\ buckets' = [buckets EXCEPT ![k] =
                 CASE cl.bucket = "record_ok" -> record_ok(@, RecoverAfterOk)
                   [] cl.bucket = "penalize" -> penalize(@, PenaltyFactor)
                   [] OTHER -> @]
           /\ IF cl.then = "sleep_429"
              THEN \* asyncio.sleep(delay_s) inside both `async with` blocks
                   /\ calls' = [calls EXCEPT ![c].pc = "sleep_429"]
                   /\ last_done' = NoneDone
              ELSE IF cl.then = "retry"
              THEN /\ calls' = [calls EXCEPT ![c].pc = "backoff"]
                   /\ last_done' = NoneDone
              ELSE \* "return", or an exception that ends the loop and is raised
                   /\ calls' = [calls EXCEPT ![c] = IdleCall]
                   /\ last_done' = Done(s, cl.outcome)
    /\ UNCHANGED <<now, unitVars, svcVars, http_sent, env>>

\* the sleep after a 429 ends: BackMarketRateLimitError leaves the `async with`
\* blocks and is caught for a retry
After429Sleep(c) ==
    /\ calls[c].pc = "sleep_429"
    /\ sem_value' = sem_value + 1
    /\ calls' = [calls EXCEPT ![c].pc = "backoff"]
    /\ last_done' = NoneDone
    /\ UNCHANGED <<now, unitVars, svcVars, buckets, breakers, http_sent, env>>

\* the backoff sleep ends: `continue`
BackoffDone(c) ==
    /\ calls[c].pc = "backoff"
    /\ Attempt(c, calls[c])
    /\ UNCHANGED <<now, unitVars, svcVars, env>>

\* time passes between the calls of a caller, a breaker's cooldown at a time
Elapse ==
    /\ now + CooldownSeconds <= MaxElapses * CooldownSeconds
    /\ now' = now + CooldownSeconds
    /\ last_done' = NoneDone
    /\ UNCHANGED <<unitVars, svcVars, buckets, breakers, sem_value, calls, http_sent, env>>

InitUnitsIdle ==
    /\ now = 0
    /\ tb = NewBucket(1, 1, 0)
    /\ tb_hist = NewBucketHist(tb)
    /\ cb = NewBreaker(1, 1)
    /\ cb_hist = NewBreakerHist

\* a Requester used by NCallers concurrent callers
Init == InitUnitsIdle /\ InitRequester(NCallers, CallCategories, MaxRequests) /\ InitServicesIdle

\* a Requester used by one caller, one send() after the other
InitSerial ==
    InitUnitsIdle /\ InitRequester(1, SerialCategories, MaxSerialRequests) /\ InitServicesIdle

Next ==
    \/ \E c \in Callers : StartSend(c)
    \/ \E c \in Callers : AcquireSem(c)
    \/ \E c \in Callers, s \in Responses : Respond(c, s)
    \/ \E c \in Callers : After429Sleep(c)
    \/ \E c \in Callers : BackoffDone(c)

\* the steps of one caller, who never finds the semaphore locked, and time passing
NextSerial ==
    \/ \E c \in Callers : StartSend(c)
    \/ \E c \in Callers, s \in Responses : Respond(c, s)
    \/ \E c \in Callers : After429Sleep(c)
    \/ \E c \in Callers : BackoffDone(c)
    \/ Elapse

\* concurrent callers: the interleavings of their steps at one instant
Spec == Init /\ [][Next]_vars
SpecSerial == InitSerial /\ [][NextSerial]_vars

\* ------------------------------------------------------------ paginate
GuardFactor == 5
DefaultGuard == 100
NoCount == 0 - 1

\* what a 2xx answer carries: a JSON object with its `count` and whether its
\* next field is set, or anything that is not a JSON object
Payloads ==
    {[kind |-> "dict", count |-> c, next |-> n] :
        c \in {NoCount} \cup (0..MaxCount), n \in BOOLEAN}
    \cup {[kind |-> "other", count |-> NoCount, next |-> FALSE]}

\* what send() does before the request: a gate raises, acquire() raises on an
\* empty bucket, or the request is made
SendGates == {"request", "circuit_open", "NameError"}

\* paginate(), line 419
ExpectedPages(total, page_size) == Max2(1, (total + page_size - 1) \div page_size)

\* paginate(), lines 441-444
Guard(p) ==
    IF p.max_pages_guard = NoGuard /\ p.expected_pages # NoExpected
    THEN p.expected_pages * GuardFactor
    ELSE IF p.max_pages_guard # NoGuard THEN p.max_pages_guard ELSE DefaultGuard

\* paginate(), lines 452-464: every exception of the try block is kept and slept on
Except(p, exc) == [p EXCEPT !.last_exc = exc, !.pc = "page_backoff"]

\* paginate(), lines 466-467
Fatal(p) == [p EXCEPT !.pc = "raised", !.named = p.seen_pages + 1]

\* paginate(), lines 399-410: one more attempt, up to the request of send()
BeginAttempt(p, gate) ==
    LET q == [p EXCEPT !.attempt = @ + 1, !.sends = @ + 1]
    IN  IF gate = "request" THEN [q EXCEPT !.pc = "request"] ELSE Except(q, gate)

\* paginate(), lines 411-450: what follows a send() that returned
Collected(p, payload) ==
    IF payload.kind # "dict" THEN Except(p, "BackMarketDataError")
    ELSE LET q == [p EXCEPT
                     !.pages = Append(@, [url |-> p.cur, next |-> payload.next]),
                     !.seen_pages = @ + 1,
                     !.expected_pages =
                        IF ~p.cursor /\ @ = NoExpected /\ payload.count # NoCount
                        THEN ExpectedPages(payload.count, p.page_size) ELSE @]
         IN  IF ~payload.next THEN [q EXCEPT !.pc = "returned"]
             ELSE IF q.seen_pages >= Guard(q)
             THEN [Except(q, "guard_tripped") EXCEPT !.guard_hit = TRUE]
             ELSE LET r == [q EXCEPT !.cur = @ + 1, !.sends = 0]
                  IN  \* `break`, then line 466
                      IF r.attempt >= r.max_attempts_per_page
                      THEN [Fatal(r) EXCEPT !.broke = TRUE]
                      ELSE [r EXCEPT !.pc = "page_top"]

\* paginate() is called with any mode, page size, guard and attempt budget
InitPaginate ==
    /\ InitUnitsIdle
    /\ InitRequester(1, SerialCategories, MaxSerialRequests)
    /\ IdleFetchAll
    /\ IdleCycle
    /\ IdleUpdate
    /\ IdleTracker
    /\ IdleBackoff
    /\ \E cursor \in BOOLEAN, page_size \in 1..MaxPageSize,
          guard \in {NoGuard} \cup (1..MaxGuard), tries \in 1..MaxAttemptsPerPage :
          pg = NewPaginate(cursor, page_size, guard, tries)

\* the outer loop starts a page: lines 395-410
PG_PageTop ==
    /\ pg.pc = "page_top"
    /\ \E gate \in SendGates :
          pg' = BeginAttempt([pg EXCEPT !.attempt = 0, !.last_exc = "None"], gate)
    /\ UNCHANGED pgRest

\* the upstream answers the request of send() with status s
PG_Respond(s, payload) ==
    /\ pg.pc = "request"
    /\ payload.next => pg.cur < MaxUpstreamPages
    /\ pg' = CASE Disposition(s) = "return" ->
                   Collected(pg, IF s = 204 THEN [payload EXCEPT !.kind = "other"]
                                 ELSE payload)
               [] Disposition(s) \in {"sleep_429", "retry"} ->
                   [pg EXCEPT !.pc = "send_backoff"]
               [] OTHER -> Except(pg, Raised(s))
    /\ UNCHANGED pgRest

\* send(), lines 334-338 and 233-235: the sleep of send() ends, `continue`
PG_SendBackoffDone ==
    /\ pg.pc = "send_backoff"
    /\ \E token \in BOOLEAN :
          pg' = IF token THEN [pg EXCEPT !.pc = "request"] ELSE Except(pg, "NameError")
    /\ UNCHANGED pgRest

\* the sleep of paginate() ends: the inner loop goes on or is exhausted
PG_PageBackoffDone ==
    /\ pg.pc = "page_backoff"
    /\ IF pg.attempt < pg.max_attempts_per_page
       THEN \E gate \in SendGates : pg' = BeginAttempt(pg, gate)
       ELSE pg' = Fatal(pg)
    /\ UNCHANGED pgRest

NextPaginate ==
    \/ PG_PageTop
    \/ \E s \in Responses, payload \in Payloads : PG_Respond(s, payload)
    \/ PG_SendBackoffDone
    \/ PG_PageBackoffDone

SpecPaginate == InitPaginate /\ [][NextPaginate]_vars
\* the event loop runs every coroutine that can run
SpecPaginateLive == SpecPaginate /\ WF_vars(NextPaginate)

\* ------------------------------------------------------- fetch_all_pages
\* a `results` field that is missing or not a list
NotList == 0 - 1

\* the pages of a listing scan: `count` (NoCount if not an integer) and the
\* length of `results` (NotList if not a list)
ScanPages ==
    [count : {NoCount} \cup (0..MaxCount), results : {NotList} \cup (0..MaxResults)]

RECURSIVE ExtendResults(_, _)
\* fetch_all_pages(), lines 61-68: the length of `results` after the first i
\* pages, NotList if one of them has no list
ExtendResults(pages, i) ==
    IF i = 0 THEN 0
    ELSE LET before == ExtendResults(pages, i - 1)
         IN  IF before = NotList \/ pages[i].results = NotList THEN NotList
             ELSE before + pages[i].results

\* a scan that returns what it has without the completeness check
FetchAllPagesUnchecked(f) ==
    LET len == ExtendResults(f.pages, Len(f.pages))
    IN  IF f.paginate_error # "None"
        THEN [f EXCEPT !.pc = "raised", !.error = f.paginate_error]
        ELSE IF len = NotList
        THEN [f EXCEPT !.pc = "raised", !.error = "BackMarketDataError"]
        ELSE [f EXCEPT !.pc = "returned", !.results = len]

\* fetch_all_pages(), lines 51-89
FetchAllPages(f) ==
    LET len == ExtendResults(f.pages, Len(f.pages))
        expected_total == IF Len(f.pages) > 0 THEN f.pages[1].count ELSE NoCount
    IN  IF f.paginate_error # "None"
        THEN [f EXCEPT !.pc = "raised", !.error = f.paginate_error]
        ELSE IF len = NotList
        THEN [f EXCEPT !.pc = "raised", !.error = "BackMarketDataError"]
        ELSE IF expected_total # NoCount /\ len # expected_total
        THEN [f EXCEPT !.pc = "raised", !.error = "BackMarketDataError",
                       !.results = len]
        ELSE [f EXCEPT !.pc = "returned", !.results = len]

\* paginate() raises, or returns a list of at least one page
PaginateOutcomes ==
    {NewFetchAll("BackMarketAPIError", <<>>)}
    \cup {NewFetchAll("None", pages) :
             pages \in UNION {[1..n -> ScanPages] : n \in 1..MaxPagesReturned}}

InitFetchAll ==
    /\ InitUnitsIdle
    /\ InitRequester(1, SerialCategories, MaxSerialRequests)
    /\ IdlePaginate
    /\ IdleCycle
    /\ IdleUpdate
    /\ IdleTracker
    /\ IdleBackoff
    /\ fa \in PaginateOutcomes

FA_FetchAllPages ==
    /\ fa.pc = "called"
    /\ fa' = FetchAllPages(fa)
    /\ UNCHANGED faRest

NextFetchAll == FA_FetchAllPages
SpecFetchAll == InitFetchAll /\ [][NextFetchAll]_vars

\* ------------------------------------------------------------ full_cycle
SettleSeconds == 120
\* the listing ids and the quantities of the scans
Lids == {"L1", "L2"}
Quantities == {0 - 1, 0, 1}
\* a listing id that a scan's index does not hold
Absent == 0 - 9
\* snapshot_index_by_id(): the quantity the index holds for each listing id
ScanIndexes == [Lids -> Quantities \cup {Absent}]

\* full_cycle(), lines 178-179
BaselineQuantity(idx, lid) == IF idx[lid] = Absent THEN 0 ELSE idx[lid]

\* a selection that takes every candidate
ToActivateAll(items, idx) == items

\* full_cycle(), lines 175-181
ToActivate(items, idx) ==
    SelectSeq(items, LAMBDA lid : BaselineQuantity(idx, lid) <= 0)

\* _bulk_update_chunked(), lines 144-145: the positions of the chunk after `start`
ChunkOf(n, start, chunk_size) == (start + 1)..Min2(start + chunk_size, n)

\* a payload that asks for quantity 1 in both phases
RequestedQuantityAlwaysOne(phase) == 1

\* _payload_for_update(), line 29
RequestedQuantity(phase) == IF phase = "activate" THEN 1 ELSE 0

\* _price_str(), line 21: the price of a candidate without a max_price
FallbackPrice == "2000.00"
\* no idempotency key: Python's None
NoneKey == "None"

\* _update_one(), lines 74-93: the arguments of the send() of a mutation
UpdateOneRequest(listing_id, phase) ==
    [method |-> "POST", listing_id |-> listing_id,
     quantity |-> RequestedQuantity(phase), price |-> FallbackPrice,
     idempotency_key |-> NoneKey]

\* send(), client.py lines 225-226: the Idempotency-Key header of the request,
\* NoneKey when the request has none
IdempotencyHeader(method, idempotency_key) ==
    IF idempotency_key # NoneKey /\ method \in {"POST", "PUT"}
    THEN idempotency_key
    ELSE NoneKey

\* a semaphore with one permit more than asked for
WorkerLimitPlusOne(workers) == Max2(1, workers) + 1

\* bulk_update(), line 111: the permits of the semaphore
WorkerLimit(workers) == Max2(1, workers)

\* an orchestrator that never aborts
AbortsNever(abort_on_first_failure, act_bulk) == FALSE

\* an orchestrator that aborts on a failure whatever its setting
AbortsOnAnyFailure(abort_on_first_failure, act_bulk) == act_bulk.failed > 0

\* full_cycle(), line 191
Aborts(abort_on_first_failure, act_bulk) ==
    abort_on_first_failure /\ act_bulk.failed > 0

\* a gather() that returns with the first task that ends
GatherDoneAtFirst(tasks) ==
    \E i \in DOMAIN tasks : tasks[i] \in {"ok", "failed"}

\* bulk_update(), line 122: gather() returns when every task has ended
GatherDone(tasks) ==
    \A i \in DOMAIN tasks : tasks[i] \in {"ok", "failed"}

\* an index in which a quantity of zero counts as active
ActiveIdsNonNegative(idx) == {lid \in Lids : idx[lid] # Absent /\ idx[lid] >= 0}

\* the ids with a positive quantity in an index: lines 221-222
ActiveIds(idx) == {lid \in Lids : idx[lid] # Absent /\ idx[lid] > 0}

\* a cycle that goes to the rescan without deactivating anything
StartDeactivateSkipped(f) ==
    [f EXCEPT !.pc = "rescan", !.log = @ \o <<"deactivate", "rescan">>,
              !.tasks = <<>>, !.totals = ZeroSummary]

\* full_cycle(), lines 208-217: the deactivation of to_activate begins; with
\* nothing to deactivate the rescan follows at once
StartDeactivate(f) ==
    IF f.to_activate = <<>>
    THEN [f EXCEPT !.pc = "rescan", !.log = @ \o <<"deactivate", "rescan">>,
                   !.tasks = <<>>, !.totals = ZeroSummary]
    ELSE [f EXCEPT !.pc = "deactivate", !.log = Append(@, "deactivate"),
                   !.chunk = 0, !.totals = ZeroSummary,
                   !.tasks = [i \in ChunkOf(Len(f.to_activate), 0, f.chunk_size)
                                 |-> "pending"]]

\* full_cycle(), lines 193-200: after the activation
AfterActivate(f) ==
    IF f.settle_seconds > 0
    THEN [f EXCEPT !.pc = "settle", !.log = Append(@, "settle"), !.tasks = <<>>]
    ELSE StartDeactivate(f)

\* full_cycle(), lines 174-190: after the baseline scan
AfterBaseline(f, idx) ==
    LET g == [f EXCEPT !.baseline_idx = idx, !.to_activate = ToActivate(f.items, idx)]
    IN  IF g.to_activate # <<>>
        THEN [g EXCEPT !.pc = "activate", !.log = Append(@, "activate"),
                       !.chunk = 0, !.totals = ZeroSummary,
                       !.tasks = [i \in ChunkOf(Len(g.to_activate), 0, g.chunk_size)
                                     |-> "pending"]]
        ELSE AfterActivate(g)

\* bulk_update(), lines 124-127, and _bulk_update_chunked(), lines 148-151: the
\* summary of the chunk is added to the totals
AddBulk(totals, tasks) ==
    LET ok == Cardinality({i \in DOMAIN tasks : tasks[i] = "ok"})
        failed == Cardinality({i \in DOMAIN tasks : tasks[i] # "ok"})
    IN  [total |-> totals.total + Cardinality(DOMAIN tasks),
         ok |-> totals.ok + ok, failed |-> totals.failed + failed]

\* _bulk_update_chunked() returns its summary (lines 154-155) to its caller:
\* full_cycle() goes on (lines 191-217), a direct caller has its result
PhaseEnd(f) ==
    LET g == IF f.pc = "activate"
             THEN [f EXCEPT !.act_bulk = f.totals, !.totals = ZeroSummary, !.tasks = <<>>]
             ELSE [f EXCEPT !.deact_bulk = f.totals, !.totals = ZeroSummary, !.tasks = <<>>]
    IN  IF f.caller # "full_cycle"
        THEN [g EXCEPT !.pc = "bulk_returned"]
        ELSE IF f.pc = "deactivate"
        THEN [g EXCEPT !.pc = "rescan", !.log = Append(@, "rescan")]
        ELSE IF Aborts(g.abort_on_first_failure, g.act_bulk)
        THEN [g EXCEPT !.pc = "raised", !.error = "BackMarketAPIError"]
        ELSE AfterActivate(g)

\* full_cycle(), lines 221-268
Reconciled(f, final_idx) ==
    LET activated_ids == {f.to_activate[i] : i \in 1..Len(f.to_activate)}
        still_active == activated_ids \cap ActiveIds(final_idx)
        regressed == ActiveIds(f.baseline_idx) \ ActiveIds(final_idx)
    IN  [f EXCEPT !.pc = "returned", !.log = Append(@, "reconcile"),
           !.final_idx = final_idx,
           !.report = [baseline_count |->
                          Cardinality({l \in Lids : f.baseline_idx[l] # Absent}),
                       activated_count |-> Len(f.to_activate),
                       deactivated_count |-> Len(f.to_activate),
                       reconcile_ok |-> (still_active = {} /\ regressed = {}),
                       activated_still_active |-> still_active,
                       initial_active_became_inactive |-> regressed]]

RECURSIVE SeqsUpTo(_, _)
\* the sequences over S of length at most n
SeqsUpTo(S, n) ==
    IF n = 0 THEN {<<>>}
    ELSE LET shorter == SeqsUpTo(S, n - 1)
         IN  shorter \cup {Append(q, x) : q \in shorter, x \in S}

InitCycle ==
    /\ InitUnitsIdle
    /\ InitRequester(1, SerialCategories, MaxSerialRequests)
    /\ IdlePaginate
    /\ IdleFetchAll
    /\ IdleUpdate
    /\ IdleTracker
    /\ IdleBackoff
    /\ \E items \in SeqsUpTo(Lids, MaxItems), workers \in 1..MaxWorkers,
          settle \in {0, SettleSeconds}, abort \in BOOLEAN :
          fc = NewCycle(items, workers, settle, abort)

\* the baseline scan returns its index
FC_BaselineDone(idx) ==
    /\ fc.pc = "baseline"
    /\ fc' = AfterBaseline(fc, idx)
    /\ UNCHANGED fcRest

\* a scan raises (a failed page, a count mismatch): full_cycle() raises
FC_ScanRaises ==
    /\ fc.pc \in {"baseline", "rescan"}
    /\ fc' = [fc EXCEPT !.pc = "raised", !.error = "BackMarketAPIError"]
    /\ UNCHANGED fcRest

\* bulk_update(), lines 114-118: a task gets the semaphore and sends its update
FC_TaskStart(i) ==
    /\ fc.pc \in {"activate", "deactivate"}
    /\ i \in DOMAIN fc.tasks
    /\ fc.tasks[i] = "pending"
    /\ Cardinality({j \in DOMAIN fc.tasks : fc.tasks[j] = "running"})
          < WorkerLimit(fc.workers)
    /\ fc' = [fc EXCEPT !.tasks[i] = "running", !.issued[fc.pc] = @ \cup {i}]
    /\ UNCHANGED fcRest

\* _update_one(), lines 84-108: the send() returns or raises; both give a
\* result. Where the model follows the upstream, an accepted mutation sets the
\* listing's quantity there.
FC_TaskDone(i, ok) ==
    /\ fc.pc \in {"activate", "deactivate"}
    /\ i \in DOMAIN fc.tasks
    /\ fc.tasks[i] = "running"
    /\ fc' = [fc EXCEPT !.tasks[i] = IF ok THEN "ok" ELSE "failed",
                        !.finished[fc.pc] = @ \cup {i},
                        !.upstream = IF ok /\ fc.upstream # NoIndex
                                     THEN [@ EXCEPT ![fc.to_activate[i]] =
                                              RequestedQuantity(fc.pc)]
                                     ELSE @]
    /\ UNCHANGED fcRest

\* bulk_update() returns: the next chunk, or the end of the phase
FC_BulkDone ==
    /\ fc.pc \in {"activate", "deactivate"}
    /\ GatherDone(fc.tasks)
    /\ LET n == Len(fc.to_activate)
           f == [fc EXCEPT !.totals = AddBulk(@, fc.tasks)]
       IN  fc' = IF fc.chunk + fc.chunk_size < n
                 THEN [f EXCEPT !.chunk = @ + fc.chunk_size,
                         !.tasks = [i \in ChunkOf(n, fc.chunk + fc.chunk_size,
                                                  fc.chunk_size) |-> "pending"]]
                 ELSE PhaseEnd(f)
    /\ UNCHANGED fcRest

\* the settle sleep ends
FC_SettleDone ==
    /\ fc.pc = "settle"
    /\ fc' = StartDeactivate(fc)
    /\ UNCHANGED fcRest

\* the rescan returns its index: reconcile and return the report
FC_RescanDone(final_idx) ==
    /\ fc.pc = "rescan"
    /\ fc' = Reconciled(fc, final_idx)
    /\ UNCHANGED fcRest

NextCycle ==
    \/ \E idx \in ScanIndexes : FC_BaselineDone(idx)
    \/ FC_ScanRaises
    \/ \E i \in 1..MaxItems : FC_TaskStart(i)
    \/ \E i \in 1..MaxItems, ok \in BOOLEAN : FC_TaskDone(i, ok)
    \/ FC_BulkDone
    \/ FC_SettleDone
    \/ \E final_idx \in ScanIndexes : FC_RescanDone(final_idx)

SpecCycle == InitCycle /\ [][NextCycle]_vars

\* ------------------------------------------------- _bulk_update_chunked
MaxBulkItems == 3
MaxChunkSize == 2

\* _bulk_update_chunked(items, activate_flag, workers, chunk_size), lines
\* 129-147, called on its own: the first chunk's tasks are created
NewBulk(items, phase, workers, chunk_size) ==
    [NewCycle(items, workers, 0, FALSE) EXCEPT
        !.pc = phase, !.caller = "bulk", !.log = <<phase>>,
        !.to_activate = items, !.chunk_size = chunk_size,
        !.tasks = [i \in ChunkOf(Len(items), 0, chunk_size) |-> "pending"]]

InitBulk ==
    /\ InitUnitsIdle
    /\ InitRequester(1, SerialCategories, MaxSerialRequests)
    /\ IdlePaginate
    /\ IdleFetchAll
    /\ IdleUpdate
    /\ IdleTracker
    /\ IdleBackoff
    /\ \E items \in SeqsUpTo(Lids, MaxBulkItems), phase \in {"activate", "deactivate"},
          workers \in 1..MaxWorkers, chunk_size \in 1..MaxChunkSize :
          fc = NewBulk(items, phase, workers, chunk_size)

NextBulk ==
    \/ \E i \in 1..MaxBulkItems : FC_TaskStart(i)
    \/ \E i \in 1..MaxBulkItems, ok \in BOOLEAN : FC_TaskDone(i, ok)
    \/ FC_BulkDone

SpecBulk == InitBulk /\ [][NextBulk]_vars

\* ------------------------------------------------ update_listing_quantity
MaxReadBack == 2
\* what _fetch_listing() gives: None (the GET raised or gave no mapping), an
\* empty mapping, a mapping with an int `quantity`, one with an int
\* `quantities.available` only, one with neither, one whose `quantities` is a
\* list
ReadBacks ==
    {NoDoc, [kind |-> "empty", q |-> NoQuantity],
     [kind |-> "no_int", q |-> NoQuantity],
     [kind |-> "quantities_list", q |-> NoQuantity]}
    \cup [kind : {"quantity", "available"}, q : 0..MaxReadBack]

\* update_listing_quantity(), lines 64-118
UpdateListingQuantity(u) ==
    LET desired_q == IF u.activate THEN 1 ELSE 0
        verified_q == IF u.doc.kind \in {"quantity", "available"}
                      THEN u.doc.q ELSE NoQuantity
        ok == verified_q = NoQuantity \/ verified_q = desired_q
    IN  IF u.post # "ok"
        THEN [requested_quantity |-> desired_q, verified_quantity |-> NoQuantity,
              ok |-> FALSE, error |-> "exc", log |-> "listing_update_failed"]
        ELSE IF u.doc.kind = "quantities_list"
        THEN [requested_quantity |-> desired_q, verified_quantity |-> NoQuantity,
              ok |-> FALSE, error |-> "AttributeError",
              log |-> "listing_update_failed"]
        ELSE [requested_quantity |-> desired_q, verified_quantity |-> verified_q,
              ok |-> ok, error |-> "None",
              log |-> IF ok THEN "listing_update_ok" ELSE "listing_update_suspect"]

InitUpdate ==
    /\ InitUnitsIdle
    /\ InitRequester(1, SerialCategories, MaxSerialRequests)
    /\ IdlePaginate
    /\ IdleFetchAll
    /\ IdleCycle
    /\ IdleTracker
    /\ IdleBackoff
    /\ \E lid \in Lids, activate \in BOOLEAN, post \in {"ok", "raises"},
          doc \in ReadBacks : ulq = NewUpdate(lid, activate, post, doc)

ULQ_Return ==
    /\ ulq.pc = "called"
    /\ ulq' = [ulq EXCEPT !.pc = "returned", !.result = UpdateListingQuantity(ulq)]
    /\ UNCHANGED ulqRest

NextUpdate == ULQ_Return
SpecUpdate == InitUpdate /\ [][NextUpdate]_vars

\* -------------------------------------------------------- LearningTracker
MaxObservations == 3
MaxAdvances == 3
\* the seconds that pass between two calls
TimeSteps == {10, FlushIntervalS}

InitTracker ==
    /\ InitUnitsIdle
    /\ InitRequester(1, SerialCategories, MaxSerialRequests)
    /\ IdlePaginate
    /\ IdleFetchAll
    /\ IdleCycle
    /\ IdleUpdate
    /\ lt = NewTracker
    /\ IdleBackoff

\* the sum of a count per tag
Total(counts) ==
    counts["listing_update"] + counts["listings_get_all"]

\* time.time() moves on
LT_Advance(d) ==
    /\ lt.clock + d <= TimeAtStart + MaxAdvances * FlushIntervalS
    /\ lt' = [lt EXCEPT !.clock = @ + d]
    /\ UNCHANGED ltRest

\* observe(), lines 59-98: one of the counters of the tag goes up by one
LT_Observe(tag) ==
    /\ Total(lt.observed) < MaxObservations
    /\ lt' = [lt EXCEPT !.stats[tag] = @ + 1, !.observed[tag] = @ + 1]
    /\ UNCHANGED ltRest

\* LearningTracker.maybe_flush(), lines 104-110
maybe_flush(t) ==
    IF t.clock - t.last_flush_ts < FlushIntervalS
    THEN [t EXCEPT !.returned = "None"]
    ELSE [t EXCEPT !.last_flush_ts = t.clock,
                   !.returned = "batch",
                   !.gap = t.clock - t.last_flush_ts,
                   !.reported = [x \in Tags |-> @[x] + t.stats[x]]]

\* maybe_flush() is called on the tracker
LT_MaybeFlush ==
    /\ lt' = maybe_flush(lt)
    /\ UNCHANGED ltRest

\* send(), lines 277-330: the responses that send() passes to _track_event()
Tracks(status, retry_404) ==
    \/ 200 <= status /\ status < 300
    \/ status = 429
    \/ 500 <= status /\ status < 600
    \/ status = 404 /\ retry_404

\* the public methods of LearningTracker (learning_tracker.py, lines 59-110)
TrackerMethods == {"observe", "recommend_delay", "maybe_flush"}

\* _TrackerAdapter.record(), line 63: the method names it looks for
RecordNames == {"record", "record_event", "add", "add_event", "track", "log", "note"}

\* _TrackerAdapter.record(), lines 62-78: the event goes to the first of the
\* named methods that the tracker has, and to the adapter's buffer when it
\* has none of them
AdapterRecord(t, tag, status) ==
    IF RecordNames \cap TrackerMethods # {}
    THEN [t EXCEPT !.stats[tag] = @ + 1]
    ELSE [t EXCEPT !.buffer = Append(@, [endpoint_tag |-> tag, status |-> status])]

\* _TrackerAdapter.maybe_flush(), lines 80-92: the tracker's maybe_flush(), then
\* the buffered events, if any, are returned in place of its batch
AdapterMaybeFlush(t) ==
    LET snap == maybe_flush(t)
    IN  IF snap.buffer # <<>>
        THEN [snap EXCEPT !.buffer = <<>>, !.returned = "events"]
        ELSE snap

\* send() has classified a response for the tag: _track_event() (lines 179-183)
\* and _maybe_flush_learning() (lines 170-177), as at lines 282-283, 295-296,
\* 314-315 and 328-329
TA_TrackEvent(tag, status) ==
    /\ Total(lt.tracked) < MaxObservations
    /\ lt' = AdapterMaybeFlush(
                [AdapterRecord(lt, tag, status) EXCEPT !.tracked[tag] = @ + 1])
    /\ UNCHANGED ltRest

\* close(), line 161: _maybe_flush_learning() on its own
TA_MaybeFlush ==
    /\ lt' = AdapterMaybeFlush(lt)
    /\ UNCHANGED ltRest

\* the tracker as the Requester drives it: through its adapter
NextAdapter ==
    \/ \E d \in TimeSteps : LT_Advance(d)
    \/ \E tag \in Tags, status \in {x \in Statuses : Tracks(x, TRUE)} :
          TA_TrackEvent(tag, status)
    \/ TA_MaybeFlush

SpecAdapter == InitTracker /\ [][NextAdapter]_vars

NextTracker ==
    \/ \E d \in TimeSteps : LT_Advance(d)
    \/ \E tag \in Tags : LT_Observe(tag)
    \/ LT_MaybeFlush

SpecTracker == InitTracker /\ [][NextTracker]_vars

\* ---------------------------------------------------- backoff_delay_ms
\* jitter_ratio and the draw of random.uniform() are counted in tenths
JitterScale == 10

RECURSIVE Pow2(_)
\* 2 ** n, line 13
Pow2(n) == IF n <= 0 THEN 1 ELSE 2 * Pow2(n - 1)

\* a delay that is not capped at max_ms
DelayUncapped(attempt, base_ms, max_ms) == base_ms * Pow2(attempt - 1)

\* backoff_delay_ms(), lines 13-14
Delay(attempt, base_ms, max_ms) == Min2(base_ms * Pow2(attempt - 1), max_ms)

\* random.uniform(1 - jitter_ratio, 1 + jitter_ratio), line 15: the draws, in tenths
Draws(jitter_tenths) == (JitterScale - jitter_tenths)..(JitterScale + jitter_tenths)

\* int() of num/den: the fraction is dropped, towards zero
Trunc(num, den) ==
    IF num >= 0 THEN num \div den ELSE 0 - ((0 - num) \div den)

\* int(delay * u), line 15. The product is a float: a draw that is no binary
\* fraction (0.7, say, is held as the nearest double, just below it) can put
\* the product of a whole value just below that value, and int() then gives
\* one less; which of the two the floats give is left open here.
Truncations(delay, u) ==
    {Trunc(delay * u, JitterScale)}
    \cup (IF u % 5 # 0 /\ (delay * u) % JitterScale = 0 /\ delay * u > 0
          THEN {(delay * u) \div JitterScale - 1} ELSE {})

\* backoff_delay_ms(), lines 12-16: the values it can return on the draw u
backoff_delay_ms(attempt, base_ms, jitter_tenths, max_ms, u) ==
    {Max2(jitter, 0) : jitter \in Truncations(Delay(attempt, base_ms, max_ms), u)}

\* backoff_delay_ms() is called with an attempt >= 1, a base and a cap of at
\* least a millisecond and a jitter_ratio from 0 on
InitBackoff ==
    /\ InitUnitsIdle
    /\ InitRequester(1, SerialCategories, MaxSerialRequests)
    /\ IdlePaginate
    /\ IdleFetchAll
    /\ IdleCycle
    /\ IdleUpdate
    /\ IdleTracker
    /\ \E attempt \in 1..MaxAttempt, base_ms \in 1..MaxBaseMs,
          jitter_tenths \in 0..MaxJitterTenths, max_ms \in 1..MaxMaxMs :
          bo = NewBackoff(attempt, base_ms, jitter_tenths, max_ms)

\* the call draws its jitter and returns
BO_Return ==
    /\ bo.pc = "called"
    /\ \E u \in Draws(bo.jitter_tenths) :
       \E result \in backoff_delay_ms(bo.attempt, bo.base_ms, bo.jitter_tenths,
                                      bo.max_ms, u) :
          bo' = [bo EXCEPT !.pc = "returned", !.u = u, !.result = result]
    /\ UNCHANGED boRest

NextBackoff == BO_Return
SpecBackoff == InitBackoff /\ [][NextBackoff]_vars

\* ------------------------------------------- full_cycle and its upstream
\* The upstream holds a quantity for each listing; the scans read it, and each
\* mutation that the upstream accepts sets it.
InitEndToEnd ==
    /\ InitUnitsIdle
    /\ InitRequester(1, SerialCategories, MaxSerialRequests)
    /\ IdlePaginate
    /\ IdleFetchAll
    /\ IdleUpdate
    /\ IdleTracker
    /\ IdleBackoff
    /\ \E items \in SeqsUpTo(Lids, MaxItems), workers \in 1..MaxWorkers,
          settle \in {0, SettleSeconds}, abort \in BOOLEAN, upstream \in ScanIndexes :
          fc = [NewCycle(items, workers, settle, abort) EXCEPT !.upstream = upstream]

NextEndToEnd ==
    \/ FC_BaselineDone(fc.upstream)
    \/ FC_ScanRaises
    \/ \E i \in 1..MaxItems : FC_TaskStart(i)
    \/ \E i \in 1..MaxItems, ok \in BOOLEAN : FC_TaskDone(i, ok)
    \/ FC_BulkDone
    \/ FC_SettleDone
    \/ FC_RescanDone(fc.upstream)

SpecEndToEnd == InitEndToEnd /\ [][NextEndToEnd]_vars

\* ------------------------------------------------------------- claims

\* C1: an acquire() call returns only after a token was consumed for it: the
\* calls that have returned never outnumber the initial tokens plus the tokens
\* refilled so far (tokens are counted in units of 1/window_seconds).
C1_ReturnedWithinGranted ==
    tb_hist.returned * tb.window <= tb_hist.initial + tb_hist.refilled

\* several callers have arrived at the empty bucket, after others were served
C1_Witness ==
    /\ tb_hist.returned >= 1
    /\ tb_hist.raised >= 2
    /\ tb.tokens < tb.window
    /\ tb_hist.refilled > 0

\* C2: over acquire() calls alone, with any time between them,
\* 0 <= tokens <= effective_max.
C2_TokensInRange ==
    /\ 0 <= tb.tokens
    /\ tb.tokens <= effective_max(tb) * tb.window

\* a fractional token count after refills, some calls served and one turned away
C2_Witness ==
    /\ tb_hist.returned >= 2
    /\ tb_hist.raised >= 1
    /\ tb_hist.refilled > 0
    /\ tb.tokens % tb.window # 0

\* C3: under acquire(), penalize(f) with 0 < f <= 1 and record_ok() interleaved,
\* 1 <= effective_max <= base_max and 0 <= tokens <= effective_max in every
\* state, the state right after a penalize() included.
C3_BucketRanges ==
    /\ EMScale <= tb.eff
    /\ tb.eff <= tb.base_max * EMScale
    /\ 1 <= effective_max(tb)
    /\ effective_max(tb) <= tb.base_max
    /\ 0 <= tb.tokens
    /\ tb.tokens <= effective_max(tb) * tb.window

\* C7: allow() is true iff now >= open_until; once fail_threshold consecutive
\* failures have opened the breaker and no further failure is recorded, allow()
\* is false until cooldown_seconds after the opening failure and true from then on.
C7_AllowFollowsCooldown ==
    /\ allow(cb, now) <=> now >= cb.open_until
    /\ (cb_hist.opened_at # NoTime /\ ~cb_hist.failed_since)
          => (allow(cb, now) <=> now >= cb_hist.opened_at + cb.cooldown)

\* the breaker was opened, the cooldown has run out and calls are allowed again
C7_Witness ==
    /\ cb_hist.opened_at # NoTime
    /\ ~cb_hist.failed_since
    /\ now >= cb_hist.opened_at + cb.cooldown
    /\ allow(cb, now)

\* C8: the failure streak is 0 after record_success() and after an opening, so
\* 0 <= consecutive_failures < fail_threshold, and open_until is set only by the
\* failure that completes fail_threshold failures with no success and no
\* opening between them.
C8_StreakDiscipline ==
    /\ 0 <= cb.consecutive
    /\ cb.consecutive < cb.fail_threshold
    /\ cb.consecutive = cb_hist.streak
    /\ cb.open_until = IF cb_hist.opened_at = NoTime THEN 0
                       ELSE cb_hist.opened_at + cb.cooldown

\* a fresh streak is running after the breaker opened
C8_Witness ==
    /\ cb_hist.opened_at # NoTime
    /\ cb.consecutive >= 1
    /\ cb.fail_threshold >= 2

\* C4: a 429 response leaves the category's breaker as it was; a 5xx response
\* adds exactly one to its failure streak, which opens the breaker (and resets
\* the streak) when fail_threshold is reached.
C4_429SparesBreaker ==
    [][\A c \in Callers :
          LET k == calls[c].category
              br == breakers[k]
          IN  /\ Respond(c, 429) => breakers' = breakers
              /\ \A s \in {500, 503} :
                    Respond(c, s) =>
                       breakers' = [breakers EXCEPT ![k] =
                          IF br.consecutive + 1 = br.fail_threshold
                          THEN [br EXCEPT !.consecutive = 0,
                                          !.open_until = now + br.cooldown]
                          ELSE [br EXCEPT !.consecutive = br.consecutive + 1]]]_vars

\* a 429 has been answered in a category whose breaker holds a failure streak
C4_Witness ==
    \E c \in Callers :
       /\ calls[c].pc = "sleep_429"
       /\ breakers[calls[c].category].consecutive >= 2

\* C5: only 5xx and 403 responses record a breaker failure: after any other
\* response or a transport error the failure streak has not grown and
\* open_until is as before.
C5_OnlyServerErrorsAndForbiddenCount ==
    [][\A c \in Callers, s \in Responses :
          LET k == calls[c].category
          IN  (Respond(c, s) /\ ~(500 <= s /\ s < 600) /\ s # 403)
                 => /\ breakers'[k].consecutive <= breakers[k].consecutive
                    /\ breakers'[k].open_until = breakers[k].open_until]_vars

RejectOutcomes == {"method_not_allowed", "circuit_open", "no_bucket"}

\* C6: a send() rejected at a gate (method not allowed, breaker open, no bucket
\* for the category) raises in the step in which it was called, issues no
\* request, takes no token and no permit and leaves buckets and breakers alone.
C6_RejectedSendTouchesNothing ==
    [][last_done'.outcome \in RejectOutcomes
          => UNCHANGED <<buckets, breakers, sem_value, http_sent, calls, now>>]_vars

\* a call has been turned away by an open breaker
C6_Witness ==
    /\ last_done.outcome = "circuit_open"
    /\ \E k \in Categories : ~allow(breakers[k], now)
    /\ http_sent >= FailThreshold

\* the HTTP requests in flight
InFlight == {c \in Callers : calls[c].pc = "request"}

\* C9: the requests in flight over all categories never outnumber
\* global_max_concurrency.
C9_InFlightWithinCap ==
    Cardinality(InFlight) <= GlobalMaxConcurrency

\* the cap is reached and a caller of another category waits for a permit
C9_Witness ==
    /\ Cardinality(InFlight) = GlobalMaxConcurrency
    /\ \E c \in InFlight, d \in Callers :
          /\ calls[d].pc = "sem_wait"
          /\ calls[d].category # calls[c].category

\* C10: a 404 ends send() with BackMarketNotFoundError when retry_404 is not
\* set, and is retried when retry_404 is set.
C10_404RetriedWhenAsked ==
    [][\A c \in Callers :
          Respond(c, 404) =>
             IF calls[c].retry_404
             THEN calls'[c].pc = "backoff"
             ELSE /\ calls'[c].pc = "idle"
                  /\ last_done'.outcome = "BackMarketNotFoundError"]_vars

\* C11: a 400, a 401 or a status outside 2xx/403/404/429/5xx ends send() at
\* once: no further attempt, the matching error (bad request, auth, generic
\* API error) is raised, and the breakers and the buckets stay as they were.
C11_ClientErrorsEndSend ==
    [][\A c \in Callers, s \in {400, 401, 418} :
          Respond(c, s) =>
             /\ calls'[c].pc = "idle"
             /\ last_done'.outcome =
                   CASE s = 400 -> "BackMarketBadRequestError"
                     [] s = 401 -> "BackMarketAuthError"
                     [] OTHER -> "BackMarketAPIError"
             /\ breakers' = breakers
             /\ buckets' = buckets
             /\ http_sent' = http_sent]_vars

\* such an error has been raised in a category with a failure streak and a
\* lowered effective_max
C11_Witness ==
    /\ last_done.outcome \in
          {"BackMarketBadRequestError", "BackMarketAuthError", "BackMarketAPIError"}
    /\ \E k \in Categories :
          /\ breakers[k].consecutive > 0
          /\ buckets[k].eff < buckets[k].base_max * EMScale

\* C12: a 403 records one breaker failure and is raised without a retry, as
\* BackMarketWAFError when the body looks like an HTML challenge page and as
\* BackMarketForbiddenError otherwise.
C12_ForbiddenClassified ==
    [][\A c \in Callers, html_challenge \in BOOLEAN :
          LET k == calls[c].category
          IN  Respond(c, 403) =>
                 /\ breakers'[k] = record_failure(breakers[k], now)
                 /\ calls'[c].pc = "idle"
                 /\ last_done'.outcome =
                       IF html_challenge THEN "BackMarketWAFError"
                       ELSE "BackMarketForbiddenError"]_vars

\* the upstream pages that paginate() has collected
CollectedUrls == {pg.pages[i].url : i \in 1..Len(pg.pages)}

\* C13: paginate() calls send() at most max_attempts_per_page times for one
\* page, and when all attempts for a page have failed the fatal error names
\* the number of distinct pages collected so far plus one.
C13_AttemptsBoundedAndPageNamed ==
    /\ pg.sends <= pg.max_attempts_per_page
    /\ (pg.pc = "raised" /\ ~pg.broke) => pg.named = Cardinality(CollectedUrls) + 1

\* C14: paginate() always terminates: it returns or raises in the end, also
\* when the upstream keeps answering a page with 429, 5xx or transport errors.
C14_PaginateTerminates == <>(pg.pc \in {"returned", "raised"})

NonRetryable ==
    {"BackMarketBadRequestError", "BackMarketAuthError", "BackMarketForbiddenError",
     "circuit_open", "BackMarketDataError"}

\* C15: after a non-retryable failure for a page (400, 401, 403, circuit open,
\* a payload that is not a JSON object) paginate() makes no further attempt
\* for that page.
C15_NonRetryableSurfaces ==
    pg.pc \in {"request", "send_backoff"} => pg.last_exc \notin NonRetryable

\* C16: paginate() never returns a page list once the guard was reached with
\* a next link still set, and never returns more pages than the guard.
C16_GuardIsFatal ==
    pg.pc = "returned" => (~pg.guard_hit /\ Len(pg.pages) <= Guard(pg))

\* C18: the list paginate() returns holds each upstream page once, in
\* order, and ends with the first page whose next field is empty.
C18_PagesOnceInOrder ==
    pg.pc = "returned" =>
       \A i \in 1..Len(pg.pages) :
          /\ pg.pages[i].url = i
          /\ pg.pages[i].next = (i < Len(pg.pages))

RECURSIVE ItemsIn(_)
\* the items of a list of pages, a missing list counting for none
ItemsIn(pages) ==
    IF pages = <<>> THEN 0
    ELSE Max2(0, Head(pages).results) + ItemsIn(Tail(pages))

\* C17: when the first page reports an integer count, fetch_all_pages()
\* returns only if the items of all pages add up to it, and raises
\* BackMarketDataError whenever they do not.
C17_CountMismatchRaises ==
    (fa.pc # "called" /\ fa.paginate_error = "None" /\ fa.pages[1].count # NoCount) =>
       LET same == ItemsIn(fa.pages) = fa.pages[1].count
       IN  /\ fa.pc = "returned" => (same /\ fa.results = ItemsIn(fa.pages))
           /\ ~same => (fa.pc = "raised" /\ fa.error = "BackMarketDataError")

\* a scan whose pages all have a list, but fewer items than the count says
C17_Witness ==
    /\ fa.pc = "raised"
    /\ fa.paginate_error = "None"
    /\ fa.pages[1].count # NoCount
    /\ \A i \in 1..Len(fa.pages) : fa.pages[i].results # NotList
    /\ ItemsIn(fa.pages) < fa.pages[1].count

\* the stages of a cycle in their order
StageRank(stage) ==
    CASE stage = "baseline" -> 1 [] stage = "activate" -> 2 [] stage = "settle" -> 3
      [] stage = "deactivate" -> 4 [] stage = "rescan" -> 5 [] OTHER -> 6

\* C19: full_cycle() runs baseline scan, activate, settle wait, deactivate,
\* rescan, reconcile in this order: no activation is sent before the baseline
\* scan has returned, no deactivation before every activation has ended and
\* the settle wait is over, and the rescan begins only after every
\* deactivation has ended.
C19_StagesInOrder ==
    LET all == 1..Len(fc.to_activate)
    IN  /\ \A i, j \in 1..Len(fc.log) :
              i < j => StageRank(fc.log[i]) < StageRank(fc.log[j])
        /\ fc.issued.activate # {} => fc.baseline_idx # NoIndex
        /\ fc.issued.deactivate # {} =>
              /\ fc.finished.activate = all
              /\ fc.settle_seconds > 0 =>
                    (\E i \in 1..Len(fc.log) : fc.log[i] = "settle") /\ fc.pc # "settle"
        /\ (\E i \in 1..Len(fc.log) : fc.log[i] = "rescan") =>
              fc.finished.deactivate = all

\* a cycle with a settle wait has returned after two listings were activated
\* and deactivated by concurrent workers
C19_Witness ==
    /\ fc.pc = "returned"
    /\ Len(fc.to_activate) >= 2
    /\ fc.workers >= 2
    /\ fc.settle_seconds > 0
    /\ fc.finished.deactivate = 1..Len(fc.to_activate)

\* the candidates (positions in items) that the baseline shows absent or with
\* a quantity of zero or less
Eligible ==
    {j \in 1..Len(fc.items) :
        \/ fc.baseline_idx[fc.items[j]] = Absent
        \/ fc.baseline_idx[fc.items[j]] <= 0}

\* C20: the activation mutations go to exactly the candidates that are absent
\* from the baseline index or have a baseline quantity <= 0; a candidate with a
\* baseline quantity > 0 gets no mutation in the whole cycle.
C20_OnlyInactiveCandidatesMutated ==
    fc.baseline_idx # NoIndex =>
       /\ \A ph \in {"activate", "deactivate"} : \A i \in fc.issued[ph] :
             \E j \in Eligible : fc.items[j] = fc.to_activate[i]
       /\ fc.pc \in {"settle", "deactivate", "rescan", "returned"} =>
             \A lid \in Lids :
                Cardinality({i \in fc.issued.activate : fc.to_activate[i] = lid})
                   = Cardinality({j \in Eligible : fc.items[j] = lid})

\* a cycle has returned that activated one candidate and left an active one alone
C20_Witness ==
    /\ fc.pc = "returned"
    /\ fc.issued.activate # {}
    /\ \E j \in 1..Len(fc.items) : j \notin Eligible

\* the stage that a cycle's log ends with
LastStage == fc.log[Len(fc.log)]
InLog(stage) == \E i \in 1..Len(fc.log) : fc.log[i] = stage
\* the listings at a set of positions of to_activate
ListingsAt(positions) == {fc.to_activate[i] : i \in positions}

\* C21: in a full_cycle that reaches the deactivate stage, the listings sent a
\* quantity=0 mutation are exactly the listings selected for activation,
\* whether or not their activation mutations succeeded.
C21_DeactivatesWhatItSelected ==
    fc.caller = "full_cycle" =>
       /\ RequestedQuantity("deactivate") = 0
       /\ fc.issued.deactivate \subseteq 1..Len(fc.to_activate)
       /\ InLog("rescan") =>
             /\ InLog("deactivate")
             /\ fc.issued.deactivate = 1..Len(fc.to_activate)
             /\ ListingsAt(fc.issued.deactivate) = ListingsAt(fc.issued.activate)

\* the deactivation has ended in a cycle in which an activation had failed
\* and another had succeeded
C21_Witness ==
    /\ fc.caller = "full_cycle"
    /\ InLog("rescan")
    /\ fc.act_bulk.failed > 0
    /\ fc.act_bulk.ok > 0
    /\ fc.finished.deactivate = 1..Len(fc.to_activate)

\* C22: with abort_on_first_failure set, a failed activation makes full_cycle
\* raise before the settle wait and before any deactivation mutation; with no
\* failed activation the cycle goes on through the remaining stages, and only
\* a scan can make it raise.
C22_AbortStopsBeforeSettle ==
    (fc.caller = "full_cycle" /\ fc.abort_on_first_failure
        /\ fc.pc \notin {"baseline", "activate"}) =>
       IF fc.act_bulk.failed > 0
       THEN /\ fc.pc = "raised"
            /\ fc.log = <<"baseline", "activate">>
            /\ fc.issued.deactivate = {}
       ELSE /\ fc.pc = "raised" => LastStage \in {"baseline", "rescan"}
            /\ fc.pc = "returned" =>
                  /\ InLog("deactivate") /\ InLog("rescan")
                  /\ fc.settle_seconds > 0 => InLog("settle")
                  /\ fc.finished.deactivate = 1..Len(fc.to_activate)

\* a cycle told to abort has raised after one activation failed and another
\* succeeded
C22_Witness ==
    /\ fc.caller = "full_cycle"
    /\ fc.abort_on_first_failure
    /\ fc.pc = "raised"
    /\ fc.act_bulk.failed > 0
    /\ fc.act_bulk.ok > 0

\* C23: with abort_on_first_failure unset, failed mutations never make
\* full_cycle raise or skip a stage: it raises only out of a scan, and when it
\* returns it has gone through every stage (the activation when there was
\* something to activate, the settle wait when one is configured) and has sent
\* every mutation of both phases.
C23_FailuresNeverAbort ==
    (fc.caller = "full_cycle" /\ ~fc.abort_on_first_failure) =>
       /\ fc.pc = "raised" => LastStage \in {"baseline", "rescan"}
       /\ fc.pc = "returned" =>
             /\ fc.log = <<"baseline">>
                    \o (IF fc.to_activate # <<>> THEN <<"activate">> ELSE <<>>)
                    \o (IF fc.settle_seconds > 0 THEN <<"settle">> ELSE <<>>)
                    \o <<"deactivate", "rescan", "reconcile">>
             /\ fc.finished.activate = 1..Len(fc.to_activate)
             /\ fc.finished.deactivate = 1..Len(fc.to_activate)
             /\ fc.report # <<>>

\* a cycle has returned its report although mutations of both phases failed
C23_Witness ==
    /\ fc.caller = "full_cycle"
    /\ ~fc.abort_on_first_failure
    /\ fc.pc = "returned"
    /\ fc.act_bulk.failed > 0
    /\ fc.deact_bulk.failed > 0

\* C24: the report that full_cycle returns tells the failed mutations of each
\* phase: its activated and deactivated counts, the only fields it has on the
\* mutations, leave out the mutations that failed.
C24_ReportTellsFailures ==
    (fc.caller = "full_cycle" /\ fc.pc = "returned") =>
       /\ fc.report.activated_count = fc.act_bulk.total - fc.act_bulk.failed
       /\ fc.report.deactivated_count = fc.deact_bulk.total - fc.deact_bulk.failed

\* C25: the anomaly sets of the report are activated_ids /\ final_active_ids
\* and initial_active_ids \ final_active_ids, a listing being active in a scan
\* iff the scan holds it with a quantity > 0, and reconcile_ok is true iff both
\* sets are empty.
C25_ReconcileSets ==
    (fc.caller = "full_cycle" /\ fc.pc = "returned") =>
       LET active(idx) == {l \in Lids : idx[l] \in Quantities /\ idx[l] > 0}
           activated_ids == ListingsAt(1..Len(fc.to_activate))
       IN  /\ fc.report.activated_still_active
                 = activated_ids \cap active(fc.final_idx)
           /\ fc.report.initial_active_became_inactive
                 = active(fc.baseline_idx) \ active(fc.final_idx)
           /\ fc.report.reconcile_ok
                 <=> (/\ fc.report.activated_still_active = {}
                      /\ fc.report.initial_active_became_inactive = {})

\* a report with both anomalies, and a listing that the rescan holds at zero
C25_Witness ==
    /\ fc.pc = "returned"
    /\ fc.report.activated_still_active # {}
    /\ fc.report.initial_active_became_inactive # {}
    /\ \E l \in Lids : fc.final_idx[l] = 0

\* C26: when the upstream applies every mutation it accepts and no call
\* fails, a cycle that returns has activated and deactivated exactly the
\* candidates that the baseline shows inactive, the active set of the rescan
\* is the active set of the baseline, reconcile_ok is true and both anomaly
\* sets are empty.
C26_EndToEnd ==
    (/\ fc.upstream # NoIndex
     /\ fc.pc = "returned"
     /\ fc.act_bulk.failed = 0
     /\ fc.deact_bulk.failed = 0) =>
       LET inactive == {fc.items[j] : j \in Eligible}
           active(idx) == {l \in Lids : idx[l] \in Quantities /\ idx[l] > 0}
       IN  /\ ListingsAt(fc.issued.activate) = inactive
           /\ ListingsAt(fc.issued.deactivate) = inactive
           /\ fc.act_bulk.ok = Cardinality(Eligible)
           /\ fc.deact_bulk.ok = Cardinality(Eligible)
           /\ active(fc.final_idx) = active(fc.baseline_idx)
           /\ fc.report.reconcile_ok
           /\ fc.report.activated_still_active = {}
           /\ fc.report.initial_active_became_inactive = {}

\* a cycle without a failed call has returned: it had a listing to activate,
\* waited for the settle period, and left alone a candidate that was active
C26_Witness ==
    /\ fc.upstream # NoIndex
    /\ fc.pc = "returned"
    /\ fc.act_bulk.failed = 0 /\ fc.deact_bulk.failed = 0
    /\ fc.act_bulk.ok > 0
    /\ fc.settle_seconds > 0
    /\ \E j \in 1..Len(fc.items) : j \notin Eligible

\* C27: in a bulk mutation no more than `workers` item mutations are in flight
\* at any time, no item of a chunk starts before every item of the chunks
\* before it has finished, and the result has one UpdateResult for each input
\* item, with summary.total = summary.ok + summary.failed = number of items.
C27_BulkBoundedAndComplete ==
    fc.caller = "bulk" =>
       LET n == Len(fc.to_activate)
           ph == fc.log[1]
           chunk_no(i) == (i - 1) \div fc.chunk_size
           bulk == IF ph = "activate" THEN fc.act_bulk ELSE fc.deact_bulk
       IN  /\ Cardinality(fc.issued[ph] \ fc.finished[ph]) <= fc.workers
           /\ \A i \in fc.issued[ph] : \A j \in 1..n :
                 chunk_no(j) < chunk_no(i) => j \in fc.finished[ph]
           /\ fc.pc = "bulk_returned" =>
                 /\ fc.issued[ph] = 1..n /\ fc.finished[ph] = 1..n
                 /\ bulk.total = n
                 /\ bulk.total = bulk.ok + bulk.failed

\* a bulk update of three items in chunks of two with one worker has
\* returned; some of its mutations failed and some succeeded
C27_Witness ==
    /\ fc.caller = "bulk"
    /\ fc.pc = "bulk_returned"
    /\ Len(fc.to_activate) = 3
    /\ fc.chunk_size = 2
    /\ fc.workers = 1
    /\ fc.act_bulk.failed > 0
    /\ fc.act_bulk.ok > 0

\* the mutations sent so far: the phase and the position in to_activate
SentMutations == {<<ph, i>> \in {"activate", "deactivate"} \X (1..Len(fc.to_activate)) :
                     i \in fc.issued[ph]}
\* the Idempotency-Key header of a sent mutation
KeyOf(m) ==
    LET rq == UpdateOneRequest(fc.to_activate[m[2]], m[1])
    IN  IdempotencyHeader(rq.method, rq.idempotency_key)

\* C28: every mutation POST of a bulk mutation carries an Idempotency-Key, and
\* two mutations carry the same key exactly when they agree on the listing id,
\* the desired quantity and the price (the run id is the same for all).
C28_MutationsCarryKey ==
    /\ \A m \in SentMutations : KeyOf(m) # NoneKey
    /\ \A m1, m2 \in SentMutations :
          KeyOf(m1) = KeyOf(m2) <=>
             LET r1 == UpdateOneRequest(fc.to_activate[m1[2]], m1[1])
                 r2 == UpdateOneRequest(fc.to_activate[m2[2]], m2[1])
             IN  /\ r1.listing_id = r2.listing_id
                 /\ r1.quantity = r2.quantity
                 /\ r1.price = r2.price

\* C29: an update_listing_quantity() call whose POST succeeded reports
\* ok = TRUE whatever the read-back gives: neither a read-back quantity that
\* differs from the requested one nor an unreadable read-back makes the result
\* a failure.
C29_PostSuccessIsOk ==
    (ulq.pc = "returned" /\ ulq.post = "ok") =>
       /\ ulq.result.ok
       /\ ulq.result.error = "None"

\* C30: maybe_flush() returns a batch only when the flush interval has passed
\* since the batch before, and a returned batch empties the counters: every
\* observation is either still in the counters or in exactly one batch.
C30_FlushDrainsCounters ==
    /\ lt.returned = "batch" =>
          /\ lt.gap >= FlushIntervalS
          /\ \A t \in Tags : lt.stats[t] = 0
    /\ \A t \in Tags : lt.reported[t] + lt.stats[t] = lt.observed[t]

\* C31: penalize(f) sets _effective_max to max(1, _effective_max * f) and
\* ok_streak to 0. A record_ok() that brings the streak of OKs since then to
\* recover_after_ok, on a bucket below base_max, makes _effective_max strictly
\* larger, not larger than base_max, and sets ok_streak to 0; any other
\* record_ok() leaves _effective_max as it is.
C31_AdaptationSteps ==
    LET base == tb.base_max * EMScale
    IN  /\ tb.eff <= base
        /\ \A f \in Factors : PenalizeExact(tb, f) =>
              LET p == penalize(tb, f)
              IN  /\ p.eff * f[2] = Max2(EMScale * f[2], tb.eff * f[1])
                  /\ p.ok_streak = 0
                  /\ p.tokens = tb.tokens /\ p.base_max = tb.base_max
        /\ RecordOkExact(tb) => \A r \in 1..MaxRecover :
              LET q == record_ok(tb, r)
              IN  IF tb.ok_streak + 1 >= r /\ tb.eff < base
                  THEN q.eff > tb.eff /\ q.eff <= base /\ q.ok_streak = 0
                  ELSE q.eff = tb.eff /\ q.ok_streak = tb.ok_streak + 1

\* a penalized bucket that is one step short of base_max and one OK short of
\* the recovery threshold
C31_Witness ==
    /\ tb.eff < tb.base_max * EMScale
    /\ tb.eff > EMScale
    /\ tb.base_max * EMScale - tb.eff < EMScale
    /\ tb.ok_streak + 1 = MaxRecover
    /\ RecordOkExact(tb)

\* C32: on a fresh bucket with max_per_window = N and window = W, with no time
\* passing, each of the first N acquire() calls returns a wait of 0 and the
\* next acquire() returns a wait of W/N.
C32_FreshBucketWaits ==
    (now = 0 /\ tb.eff = tb.base_max * EMScale /\ tb_hist.raised = 0) =>
       LET a == acquire(tb, now)
       IN  IF tb_hist.returned < tb.base_max
           THEN a.returned /\ a.sleep[1] = 0
           ELSE /\ a.returned
                /\ a.sleep[1] * tb.base_max = tb.window * a.sleep[2]

\* C40: open_until never decreases, and a record_failure() that completes a
\* streak of fail_threshold while the breaker is open moves open_until to
\* now + cooldown: the open period is extended.
C40_OpenUntilNeverDecreases ==
    [][/\ cb'.open_until >= cb.open_until
       /\ (/\ cb_hist'.ops = cb_hist.ops + 1
           /\ cb_hist.streak + 1 = cb.fail_threshold
           /\ cb_hist'.opened_at = now
           /\ cb_hist'.extended) =>
              /\ ~allow(cb, now)
              /\ cb'.open_until = now + cb.cooldown
              /\ cb'.open_until >= cb.open_until]_vars

\* a streak of two failures was completed while the breaker was open, and
\* the breaker now stays open longer than the opening before would have kept it
C40_Witness ==
    /\ cb_hist.extended
    /\ cb.fail_threshold >= 2
    /\ cb_hist.opened_at > 0
    /\ cb.open_until = cb_hist.opened_at + cb.cooldown
    /\ ~allow(cb, now)

\* C34: in the retry loop of a send() call no HTTP request is issued while
\* the breaker of the call's category is open (one caller: the breaker does
\* not change between the issue of a request and its answer).
C34_NoRequestWhileOpen ==
    \A c \in Callers :
       calls[c].pc = "request" => allow(breakers[calls[c].category], now)

\* the callers that hold a permit of the global semaphore
Sleeping429 == {c \in Callers : calls[c].pc = "sleep_429"}
HoldingPermit == {c \in Callers : calls[c].pc \in {"request", "sleep_429"}}

\* C39: a send() keeps its permit through the sleep after a 429: the callers
\* in an HTTP exchange or in a 429 sleep are the holders of the permits and
\* never outnumber global_max_concurrency, and while as many callers as
\* there are permits sleep, the semaphore is locked and no request is under
\* way.
C39_SleepKeepsPermit ==
    /\ Cardinality(HoldingPermit) <= GlobalMaxConcurrency
    /\ sem_value = GlobalMaxConcurrency - Cardinality(HoldingPermit)
    /\ Cardinality(Sleeping429) = GlobalMaxConcurrency =>
          /\ SemLocked
          /\ \A c \in Callers : calls[c].pc # "request"

\* every permit is held by a caller in its 429 sleep while another caller,
\* which has its token, waits for a permit
C39_Witness ==
    /\ Cardinality(Sleeping429) = GlobalMaxConcurrency
    /\ \E c \in Callers : calls[c].pc = "sem_wait"

\* C37: a step of a send() in category A leaves the bucket and the breaker
\* of every other category as they were.
C37_CategoriesIsolated ==
    [][\/ buckets' = buckets /\ breakers' = breakers
       \/ \E c \in Callers :
             /\ calls'[c] # calls[c]
             /\ \A d \in Callers \ {c} : calls'[d] = calls[d]
             /\ LET k == IF calls[c].pc # "idle" THEN calls[c].category
                         ELSE calls'[c].category
                IN  \A b \in Categories \ {k} :
                       buckets'[b] = buckets[b] /\ breakers'[b] = breakers[b]]_vars

\* sends in one category have used tokens and recorded a failure there, and
\* the buckets and breakers of the other categories are as they were built
C37_Witness ==
    /\ breakers["seller_mutations"].consecutive > 0
    /\ buckets["seller_mutations"].tokens < SellerMutationsMax * RateWindowSeconds
    /\ \A b \in Categories \ {"seller_mutations"} :
          /\ buckets[b] = NewBucket(BucketMax(b), RateWindowSeconds, 0)
          /\ breakers[b] = NewBreaker(FailThreshold, CooldownSeconds)

\* C35: a page fetch that succeeds with a next link, on any attempt up to the
\* last one allowed and below the guard, is accepted: paginate goes on to
\* the next page and does not raise.
C35_LastAttemptAccepted ==
    [][(/\ pg.pc = "request"
        /\ pg.attempt <= pg.max_attempts_per_page
        /\ Len(pg'.pages) = Len(pg.pages) + 1
        /\ pg'.pages[Len(pg'.pages)].next
        /\ pg'.seen_pages < Guard(pg'))
          => pg'.pc = "page_top" /\ pg'.cur = pg.cur + 1]_vars

\* full_cycle() has ended, by its return or by an exception
CycleEnded == fc.caller = "full_cycle" /\ fc.pc \in {"returned", "raised"}

\* C38: whenever full_cycle has ended, by its return or by any exception,
\* every listing it issued an activation for has been issued a deactivation.
C38_AlwaysDeactivated ==
    CycleEnded => ListingsAt(fc.issued.activate) \subseteq ListingsAt(fc.issued.deactivate)

\* C36: when send() has classified a 2xx, 429 or 5xx response for a tag and
\* passed it to the tracker, the counters of that tag in the LearningTracker
\* have gone up by exactly one.
C36_ResponsesAreCounted ==
    [][\A tag \in Tags :
          lt'.tracked[tag] = lt.tracked[tag] + 1 =>
             lt'.stats[tag] = lt.stats[tag] + 1]_vars

\* the delay before jitter of the call, as the claim defines it
CappedDelay == Min2(bo.base_ms * Pow2(bo.attempt - 1), bo.max_ms)

\* the claim as stated: the value returned is at least (1 - jitter_ratio) x d
\* and at most (1 + jitter_ratio) x d, so at most (1 + jitter_ratio) x max_ms.
C33_WithinJitterBand ==
    bo.pc = "returned" =>
       /\ bo.result * JitterScale >= (JitterScale - bo.jitter_tenths) * CappedDelay
       /\ bo.result * JitterScale <= (JitterScale + bo.jitter_tenths) * CappedDelay
       /\ bo.result * JitterScale <= (JitterScale + bo.jitter_tenths) * bo.max_ms

\* C33: the value returned, a whole number of milliseconds, is at least
\* (1 - jitter_ratio) x d - 1 and at most (1 + jitter_ratio) x d, so at most
\* (1 + jitter_ratio) x max_ms.
C33_WithinJitterBandLessOne ==
    bo.pc = "returned" =>
       /\ bo.result >= 0
       /\ (bo.result + 1) * JitterScale >= (JitterScale - bo.jitter_tenths) * CappedDelay
       /\ bo.result * JitterScale <= (JitterScale + bo.jitter_tenths) * CappedDelay
       /\ bo.result * JitterScale <= (JitterScale + bo.jitter_tenths) * bo.max_ms

\* a call whose delay was capped at max_ms drew the lowest jitter and
\* returned less than (1 - jitter_ratio) x d
C33_Witness ==
    /\ bo.pc = "returned"
    /\ bo.attempt >= 2
    /\ bo.base_ms * Pow2(bo.attempt - 1) > bo.max_ms
    /\ bo.jitter_tenths > 0
    /\ bo.u = JitterScale - bo.jitter_tenths
    /\ bo.result * JitterScale < (JitterScale - bo.jitter_tenths) * CappedDelay

====
